---- MODULE Spec2Model ----
(***************************************************************************)
(* POSIX ACL library (steiler/acls): the in-memory ACL, its entry          *)
(* collection (AddEntry, DeleteEntry, EntryExists, Equal, sort) and the    *)
(* binary codec (parse, ToByteSlice) of the extended-attribute payload.    *)
(*                                                                         *)
(* An ACL is a record [Version, Entries]; an entry is a record             *)
(* [Tag, Perm, Id].  A byte buffer is a sequence of numbers 0..255.        *)
(* Go positions are 0-based: EntryExists returns the Go position, -1 for   *)
(* "not found".  The integers of the model checker are 32-bit signed: a    *)
(* uint32 of 2^31 or more is held as the signed number of the same 32      *)
(* bits (math.MaxUint32 is -1); ids are only ever compared for equality.   *)
(***************************************************************************)
EXTENDS Integers, Sequences, FiniteSets, TLC

VARIABLES
    acls,   \* the two ACL objects of the program, "a" and "b"
    last,   \* the last call: operation, receiver, arguments, state before, results
    fs,     \* the file the program loads from and applies to: attributes, stat
    frame,  \* the call of Load in progress: its position and its locals
    mem     \* the backing arrays of the slices: a.Entries and the slices
            \* GetEntries has returned (SpecSlice)

vars == <<acls, last, fs, frame, mem>>

(***************************************************************************)
(* Tag codes.                                                              *)
(***************************************************************************)
TAG_ACL_USER_OBJ == 1
TAG_ACL_USER == 2
TAG_ACL_GROUP_OBJ == 4
TAG_ACL_GROUP == 8
TAG_ACL_MASK == 16
TAG_ACL_OTHER == 32

(***************************************************************************)
(* Bounds of the model.                                                    *)
(***************************************************************************)
\* most entries an ACL is grown to by AddEntry
MaxEntries == 3
\* most 8-byte records in a buffer handed to parse
MaxRecords == 2
\* longest slice handed to sort in SpecSort
MaxSortLen == 13

Names == {"a", "b"}
Versions == {2, 3}

(***************************************************************************)
(* ACLEntry                                                                *)
(***************************************************************************)
NewEntry(tag, id, perm) == [Tag |-> tag, Perm |-> perm, Id |-> id]

\* the entries the calls of the model are made with: two named users, one of
\* them with two different permissions, and a named group
EntryValues ==
    { NewEntry(TAG_ACL_USER, 5556, 7), NewEntry(TAG_ACL_USER, 5556, 5),
      NewEntry(TAG_ACL_USER, 5558, 7), NewEntry(TAG_ACL_GROUP, 5556, 7) }

\* the comparison of the ids alone
equalTagID_idOnly(a, e) == e.Id = a.Id

equalTagID(a, e) ==
    IF e.Tag # a.Tag THEN FALSE
    ELSE IF e.Id # a.Id THEN FALSE
    ELSE TRUE

\* the comparison of two entries leaving the permission out
ACLEntry_Equal_noPerm(a, e) == a.Id = e.Id /\ a.Tag = e.Tag

ACLEntry_Equal(a, e) == a.Id = e.Id /\ a.Tag = e.Tag /\ a.Perm = e.Perm

\* binary.LittleEndian, 16 and 32 bits
PutUint16(x) == << x % 256, (x \div 256) % 256 >>
PutUint32(x) ==
    << x % 256, (x \div 256) % 256, (x \div 65536) % 256, (x \div 16777216) % 256 >>
Uint16(b) == b[1] + 256 * b[2]
Uint32(b) ==
    b[1] + 256 * b[2] + 65536 * b[3] + 16777216 * (IF b[4] >= 128 THEN b[4] - 256 ELSE b[4])

\* the bytes ACLEntry.ToByteSlice appends to the buffer
ACLEntry_ToByteSlice(e) == PutUint16(e.Tag) \o PutUint16(e.Perm) \o PutUint32(e.Id)

ErrNil == "nil"
ErrMalformed == "malformed data"
ErrHeader == "expecting at least a 32 bit header"

\* ACLEntry.parse keeping the three permission bits only
ACLEntry_parse_maskPerm(b) ==
    IF Len(b) < 8
    THEN [entry |-> NewEntry(0, 0, 0), remainder |-> << >>, err |-> ErrMalformed]
    ELSE [entry |-> [Tag |-> Uint16(SubSeq(b, 1, 2)),
                     Perm |-> Uint16(SubSeq(b, 3, 4)) % 8,
                     Id |-> Uint32(SubSeq(b, 5, 8))],
          remainder |-> SubSeq(b, 9, Len(b)),
          err |-> ErrNil]

\* ACLEntry.parse on a zero entry: the entry read, the bytes left, the error
ACLEntry_parse(b) ==
    IF Len(b) < 8
    THEN [entry |-> NewEntry(0, 0, 0), remainder |-> << >>, err |-> ErrMalformed]
    ELSE [entry |-> [Tag |-> Uint16(SubSeq(b, 1, 2)),
                     Perm |-> Uint16(SubSeq(b, 3, 4)),
                     Id |-> Uint32(SubSeq(b, 5, 8))],
          remainder |-> SubSeq(b, 9, Len(b)),
          err |-> ErrNil]

(***************************************************************************)
(* ACL                                                                     *)
(***************************************************************************)
ACLValue(version, entries) == [Version |-> version, Entries |-> entries]

\* the scan comparing whole entries, the permission too
EntryExists_valueEqual(acl, e) ==
    LET hits == { i \in 1..Len(acl.Entries) : ACLEntry_Equal(acl.Entries[i], e) }
    IN  IF hits = {} THEN -1
        ELSE (CHOOSE i \in hits : \A j \in hits : i <= j) - 1

\* the position of the first entry with e's tag and id, -1 when there is none
EntryExists(acl, e) ==
    LET hits == { i \in 1..Len(acl.Entries) : equalTagID(acl.Entries[i], e) }
    IN  IF hits = {} THEN -1
        ELSE (CHOOSE i \in hits : \A j \in hits : i <= j) - 1

\* a.Entries[:pos] alone: the entries behind the one removed are lost
deleteEntryPos_truncate(acl, pos) ==
    [acl |-> [acl EXCEPT !.Entries = SubSeq(acl.Entries, 1, pos)],
     result |-> << acl.Entries[pos + 1] >>]

\* append(a.Entries[:pos], a.Entries[pos+1:]...), returning the entry removed
deleteEntryPos(acl, pos) ==
    [acl |-> [acl EXCEPT !.Entries =
                 SubSeq(acl.Entries, 1, pos) \o SubSeq(acl.Entries, pos + 2, Len(acl.Entries))],
     result |-> << acl.Entries[pos + 1] >>]

\* result is << >> for Go's nil, << entry >> for the entry deleted
DeleteEntry(acl, e) ==
    LET pos == EntryExists(acl, e)
    IN  IF pos >= 0 THEN deleteEntryPos(acl, pos)
        ELSE [acl |-> acl, result |-> << >>]

\* GetEntry: the stored entry with e's tag and id, << >> for nil
GetEntry(acl, e) ==
    LET pos == EntryExists(acl, e)
    IN  IF pos >= 0 THEN << acl.Entries[pos + 1] >> ELSE << >>

\* AddEntry without the DeleteEntry before the append
AddEntry_append(acl, e) ==
    [acl |-> [acl EXCEPT !.Entries = Append(@, e)], err |-> ErrNil]

\* AddEntry writing e over the stored entry of its tag and id, where it is
AddEntry_overwrite(acl, e) ==
    LET pos == EntryExists(acl, e)
    IN  IF pos >= 0 THEN [acl |-> [acl EXCEPT !.Entries[pos + 1] = e], err |-> ErrNil]
        ELSE [acl |-> [acl EXCEPT !.Entries = Append(@, e)], err |-> ErrNil]

AddEntry(acl, e) ==
    LET deleted == DeleteEntry(acl, e)
    IN  [acl |-> [deleted.acl EXCEPT !.Entries = Append(@, e)], err |-> ErrNil]

(***************************************************************************)
(* sort: sort.Slice(a.Entries, less) with less comparing the tags.         *)
(* sort.Slice is not a stable sort.  The toolchain the repository pins     *)
(* (GOVER 1.20.2 in .github/workflows/go.yml) sorts a slice of at most 12  *)
(* elements by insertion sort; a longer slice goes through pdqsort, whose  *)
(* result is any arrangement of the entries in ascending tag order.        *)
(***************************************************************************)
\* the comparison turned round
less_descending(x, y) == x.Tag > y.Tag

less(x, y) == x.Tag < y.Tag

RECURSIVE insertLast(_, _)
\* the inner loop of insertion sort: x moves left while less(x, the one before)
insertLast(s, x) ==
    IF s = << >> \/ ~less(x, s[Len(s)]) THEN Append(s, x)
    ELSE Append(insertLast(SubSeq(s, 1, Len(s) - 1), x), s[Len(s)])

RECURSIVE insertionSort(_)
insertionSort(s) ==
    IF s = << >> THEN << >>
    ELSE insertLast(insertionSort(SubSeq(s, 1, Len(s) - 1)), s[Len(s)])

RECURSIVE Orderings(_, _)
\* every ordering of the positions idx of s, as sequences of entries
Orderings(s, idx) ==
    IF idx = {} THEN { << >> }
    ELSE UNION { { << s[i] >> \o r : r \in Orderings(s, idx \ {i}) } : i \in idx }

RECURSIVE TagOrdered(_, _)
\* every arrangement of s in ascending order of the tags in tags
TagOrdered(s, tags) ==
    IF tags = {} THEN { << >> }
    ELSE LET t == CHOOSE x \in tags : \A y \in tags : x <= y
             run == Orderings(s, { i \in 1..Len(s) : s[i].Tag = t })
         IN  UNION { { p \o r : r \in TagOrdered(s, tags \ {t}) } : p \in run }

\* the orders sort.Slice may leave the entries in
SortOutcomes(s) ==
    IF Len(s) <= 12 THEN { insertionSort(s) }
    ELSE TagOrdered(s, { s[i].Tag : i \in 1..Len(s) })

\* a sort that keeps one entry of each tag, the first in sorted order
sort_oneOfEachTag(acl) ==
    { LET keep == { i \in 1..Len(s) : \A j \in 1..i - 1 : s[j].Tag # s[i].Tag }
      IN  [acl EXCEPT !.Entries =
              [k \in 1..Cardinality(keep) |->
                  s[CHOOSE i \in keep : Cardinality({ j \in keep : j <= i }) = k]]]
      : s \in SortOutcomes(acl.Entries) }

\* ACL.sort: the ACL after the call
sort(acl) == { [acl EXCEPT !.Entries = s] : s \in SortOutcomes(acl.Entries) }

RECURSIVE EntriesBytes(_)
EntriesBytes(entries) ==
    IF entries = << >> THEN << >>
    ELSE ACLEntry_ToByteSlice(Head(entries)) \o EntriesBytes(Tail(entries))

\* ToByteSlice without the sort
ToByteSlice_unsorted(acl) ==
    { [acl |-> acl, bytes |-> PutUint32(acl.Version) \o EntriesBytes(acl.Entries)] }

\* ACL.ToByteSlice: the ACL after the call (sorted in place) and the bytes written
ToByteSlice(acl) ==
    { [acl |-> x, bytes |-> PutUint32(x.Version) \o EntriesBytes(x.Entries)] : x \in sort(acl) }

\* permission bits
PermRead == 4
PermWrite == 2
PermExecute == 1
PermAll == 7
PermNone == 0

ErrPermLength == "invalid permission string length"

RECURSIVE BitOr(_, _)
\* a | b on unsigned numbers
BitOr(a, b) ==
    IF a = 0 THEN b
    ELSE IF b = 0 THEN a
    ELSE (IF a % 2 = 1 \/ b % 2 = 1 THEN 1 ELSE 0) + 2 * BitOr(a \div 2, b \div 2)

\* a string is the sequence of its characters; "U+00E9" stands for the one
\* character e with acute accent.  A Go string holds the UTF-8 bytes of its
\* characters: len(s) counts bytes and s[i] is a byte
Utf8(c) ==
    CASE c = "r" -> << 114 >>
      [] c = "w" -> << 119 >>
      [] c = "x" -> << 120 >>
      [] c = "-" -> << 45 >>
      [] c = "R" -> << 82 >>
      [] c = "U+00E9" -> << 195, 169 >>

RECURSIVE StringBytes(_)
StringBytes(s) == IF s = << >> THEN << >> ELSE Utf8(Head(s)) \o StringBytes(Tail(s))

\* PermStringToUint with the write and the execute bit exchanged
PermStringToUint_swapped(s) ==
    LET b == StringBytes(s)
    IN  IF Len(b) # 3 THEN [p |-> 0, err |-> ErrPermLength]
        ELSE LET p1 == IF b[1] = 114 THEN BitOr(0, PermRead) ELSE 0
                 p2 == IF b[2] = 119 THEN BitOr(p1, PermExecute) ELSE p1
                 p3 == IF b[3] = 120 THEN BitOr(p2, PermWrite) ELSE p2
             IN  [p |-> p3, err |-> ErrNil]

\* PermStringToUint on a string given as the sequence of its characters:
\* len(s), s[0] == 'r', s[1] == 'w', s[2] == 'x' on its bytes
PermStringToUint(s) ==
    LET b == StringBytes(s)
    IN  IF Len(b) # 3 THEN [p |-> 0, err |-> ErrPermLength]
        ELSE LET p1 == IF b[1] = 114 THEN BitOr(0, PermRead) ELSE 0
                 p2 == IF b[2] = 119 THEN BitOr(p1, PermWrite) ELSE p1
                 p3 == IF b[3] = 120 THEN BitOr(p2, PermExecute) ELSE p2
             IN  [p |-> p3, err |-> ErrNil]

\* PermUintToString comparing the whole number where the code masks one bit
PermUintToString_unmasked(p) ==
    << IF p \div 4 = 1 THEN "r" ELSE "-",
       IF (p \div 2) % 2 = 1 THEN "w" ELSE "-",
       IF p % 2 = 1 THEN "x" ELSE "-" >>

\* PermUintToString, as the sequence of its three characters
PermUintToString(p) ==
    << IF (p \div 4) % 2 = 1 THEN "r" ELSE "-",
       IF (p \div 2) % 2 = 1 THEN "w" ELSE "-",
       IF p % 2 = 1 THEN "x" ELSE "-" >>

\* ACLEntry.String: the values the line is formatted from
ACLEntry_String(e) ==
    [Tag |-> e.Tag, Id |-> e.Id, PermStr |-> PermUintToString(e.Perm), Perm |-> e.Perm]

\* String without the sort
String_unsorted(acl) ==
    { [acl |-> acl,
       text |-> [Version |-> acl.Version,
                 Lines |-> [i \in 1..Len(acl.Entries) |-> ACLEntry_String(acl.Entries[i])]]] }

\* ACL.String: the ACL after the call (sorted in place) and the text, as the
\* version and the lines of the entries
String(acl) ==
    { [acl |-> x,
       text |-> [Version |-> x.Version,
                 Lines |-> [i \in 1..Len(x.Entries) |-> ACLEntry_String(x.Entries[i])]]]
      : x \in sort(acl) }

\* Equal sorting before it compares lengths and versions
Equal_sortFirst(a, e) ==
    { [a |-> x, e |-> y,
       result |-> /\ Len(a.Entries) = Len(e.Entries) /\ a.Version = e.Version
                  /\ \A id \in 1..Len(x.Entries) : ACLEntry_Equal(x.Entries[id], y.Entries[id])]
      : x \in sort(a), y \in sort(e) }

\* ACL.Equal: a.Equal(e), both ACLs after the call and the result
Equal(a, e) ==
    IF ~(Len(a.Entries) = Len(e.Entries) /\ a.Version = e.Version)
    THEN { [a |-> a, e |-> e, result |-> FALSE] }
    ELSE { [a |-> x, e |-> y,
            result |-> \A id \in 1..Len(x.Entries) : ACLEntry_Equal(x.Entries[id], y.Entries[id])]
           : x \in sort(a), y \in sort(e) }

RECURSIVE parseEntries_dropTail(_, _)
\* the loop leaving a last, incomplete record unread
parseEntries_dropTail(acl, remainder) ==
    LET r == ACLEntry_parse(remainder)
    IN  IF r.err # ErrNil THEN [acl |-> acl, err |-> ErrNil]
        ELSE parseEntries_dropTail([acl EXCEPT !.Entries = Append(@, r.entry)], r.remainder)

RECURSIVE parseEntries(_, _)
\* the loop of ACL.parse: parse an entry, return on its error, append, stop
\* when nothing is left
parseEntries(acl, remainder) ==
    LET r == ACLEntry_parse(remainder)
    IN  IF r.err # ErrNil THEN [acl |-> acl, err |-> r.err]
        ELSE LET next == [acl EXCEPT !.Entries = Append(@, r.entry)]
             IN  IF Len(r.remainder) = 0 THEN [acl |-> next, err |-> ErrNil]
                 ELSE parseEntries(next, r.remainder)

\* ACL.parse: the ACL after the call and the error
parse(acl, b) ==
    IF Len(b) < 4 THEN [acl |-> acl, err |-> ErrHeader]
    ELSE parseEntries([acl EXCEPT !.Version = Uint32(SubSeq(b, 1, 4))],
                      SubSeq(b, 5, Len(b)))

(***************************************************************************)
(* The calls, as actions.  last keeps what a call was made with and what   *)
(* it returned.                                                            *)
(***************************************************************************)
Call(op, on, arg, pre) ==
    [op |-> op, on |-> on, arg |-> arg, pre |-> pre,
     result |-> << >>, err |-> ErrNil, equal |-> FALSE, bytes |-> << >>, rest |-> << >>,
     io |-> << >>, boot |-> FALSE]

\* no call of Load is in progress
NoFrame == [pc |-> "idle", on |-> "a", attr |-> "", attrSize |-> 0, io |-> << >>, pre |-> << >>]

\* a file that is not looked at
NoFile == [xattr |-> << >>, stat |-> << >>]

\* a call of the library that is made when no other is in progress and that
\* does no input or output
Local == frame = NoFrame /\ UNCHANGED <<fs, frame, mem>>

\* no slice is followed
NoMem == [heap |-> << >>, closed |-> {}, ent |-> [arr |-> 0, len |-> 0], got |-> << >>, writes |-> 0]

\* &ACL{version: v}: an ACL as constructed, without entries
Init ==
    /\ acls \in [Names -> { ACLValue(v, << >>) : v \in Versions }]
    /\ last = Call("none", "a", << >>, acls)
    /\ fs = NoFile
    /\ frame = NoFrame
    /\ mem = NoMem

DoAddEntry(n, e) ==
    /\ Local
    /\ Len(acls[n].Entries) < MaxEntries \/ EntryExists(acls[n], e) >= 0
    /\ LET r == AddEntry(acls[n], e)
       IN  /\ acls' = [acls EXCEPT ![n] = r.acl]
           /\ last' = [Call("AddEntry", n, << e >>, acls) EXCEPT !.err = r.err]

DoDeleteEntry(n, e) ==
    LET r == DeleteEntry(acls[n], e)
    IN  /\ Local
        /\ acls' = [acls EXCEPT ![n] = r.acl]
        /\ last' = [Call("DeleteEntry", n, << e >>, acls) EXCEPT !.result = r.result]

DoToByteSlice(n) ==
    \E r \in ToByteSlice(acls[n]) :
        /\ Local
        /\ acls' = [acls EXCEPT ![n] = r.acl]
        /\ last' = [Call("ToByteSlice", n, << >>, acls) EXCEPT !.bytes = r.bytes]

DoString(n) ==
    \E r \in String(acls[n]) :
        /\ Local
        /\ acls' = [acls EXCEPT ![n] = r.acl]
        /\ last' = Call("String", n, << >>, acls)

DoGetEntry(n, e) ==
    /\ Local
    /\ acls' = acls
    /\ last' = [Call("GetEntry", n, << e >>, acls) EXCEPT !.result = GetEntry(acls[n], e)]

\* a.Equal(b)
DoEqual ==
    \E r \in Equal(acls["a"], acls["b"]) :
        /\ Local
        /\ acls' = [acls EXCEPT !["a"] = r.a, !["b"] = r.e]
        /\ last' = [Call("Equal", "a", << >>, acls) EXCEPT !.equal = r.result]

Next ==
    \/ \E n \in Names, e \in EntryValues : DoAddEntry(n, e)
    \/ \E n \in Names, e \in EntryValues : DoDeleteEntry(n, e)
    \/ \E n \in Names : DoToByteSlice(n)
    \/ \E n \in Names : DoString(n)
    \/ \E n \in Names, e \in EntryValues : DoGetEntry(n, e)
    \/ DoEqual

Spec == Init /\ [][Next]_vars

(***************************************************************************)
(* SpecParse: one ACL, parsed from a buffer and then edited and written.   *)
(***************************************************************************)
SeqsUpTo(S, n) == UNION { [1..k -> S] : k \in 0..n }

\* a version and up to MaxRecords records
FullBuffers ==
    { PutUint32(v) \o EntriesBytes(es) : v \in Versions, es \in SeqsUpTo(EntryValues, MaxRecords) }

\* the buffers parse is called with: every prefix of a full buffer
ParseInputs == UNION { { SubSeq(f, 1, k) : k \in 0..Len(f) } : f \in FullBuffers }

\* &ACL{}
ZeroACL == ACLValue(0, << >>)

\* err := a.parse(b).  parse is only called on an ACL without entries: a new
\* &ACL{}, or in Load after a.Entries = []*ACLEntry{}
DoParse(b) ==
    /\ Local
    /\ acls["a"].Entries = << >>
    /\ LET r == parse(acls["a"], b)
       IN  /\ acls' = [acls EXCEPT !["a"] = r.acl]
           /\ last' = [Call("parse", "a", << >>, acls) EXCEPT !.err = r.err, !.bytes = b]

NextParse ==
    \/ \E b \in ParseInputs : DoParse(b)
    \/ \E e \in EntryValues : DoAddEntry("a", e)
    \/ \E e \in EntryValues : DoDeleteEntry("a", e)
    \/ DoToByteSlice("a")

SpecParse == Init /\ [][NextParse]_vars

(***************************************************************************)
(* SpecEntry: one entry, written by ACLEntry.ToByteSlice and read back by  *)
(* ACLEntry.parse.                                                         *)
(***************************************************************************)
\* tags, permissions and ids at the ends and the byte borders of their widths;
\* -2147483647 - 1 is the uint32 0x80000000, -1 is 0xFFFFFFFF
EntryTags == {0, TAG_ACL_USER, TAG_ACL_OTHER, 255, 256, 65535}
EntryPerms == {0, 7, 8, 255, 256, 65535}
EntryIds == {0, 255, 256, 5556, 16777216, 2147483647, -2147483647 - 1, -1}

InitEntry ==
    /\ acls = [n \in Names |-> ACLValue(2, << >>)]
    /\ \E t \in EntryTags, p \in EntryPerms, i \in EntryIds :
          last = Call("NewEntry", "a", << NewEntry(t, i, p) >>, acls)
    /\ fs = NoFile
    /\ frame = NoFrame
    /\ mem = NoMem

\* e.ToByteSlice(result) on an empty buffer
DoEntryToByteSlice ==
    /\ Local
    /\ last.op = "NewEntry"
    /\ acls' = acls
    /\ last' = [last EXCEPT !.op = "ACLEntry.ToByteSlice",
                            !.bytes = ACLEntry_ToByteSlice(last.arg[1])]

\* (&ACLEntry{}).parse(b) on the first k of the bytes written
DoEntryParse(k) ==
    /\ Local
    /\ last.op = "ACLEntry.ToByteSlice"
    /\ acls' = acls
    /\ LET r == ACLEntry_parse(SubSeq(last.bytes, 1, k))
       IN  last' = [last EXCEPT !.op = "ACLEntry.parse",
                               !.bytes = SubSeq(last.bytes, 1, k),
                               !.result = << r.entry >>,
                               !.rest = r.remainder,
                               !.err = r.err]

NextEntry ==
    \/ DoEntryToByteSlice
    \/ \E k \in 0..8 : DoEntryParse(k)

SpecEntry == InitEntry /\ [][NextEntry]_vars

(***************************************************************************)
(* SpecLoad: Load and Apply on a file.  The file has the two ACL           *)
(* attributes, each absent or holding bytes, and the owner and mode stat   *)
(* reports.  Load reads the attribute in two system calls, one for the     *)
(* size and one for the bytes; between the two another process may write   *)
(* or remove the attribute.                                                *)
(***************************************************************************)
PosixACLAccess == "system.posix_acl_access"
PosixACLDefault == "system.posix_acl_default"
Attrs == {PosixACLAccess, PosixACLDefault}

\* errors of the system calls
ENODATA == "no data available"
ERANGE == "numerical result out of range"
EACCES == "permission denied"
ENOENT == "no such file or directory"
ErrSys == "error determining file UID and GID"

\* math.MaxUint32, as the signed number of the same 32 bits
MaxUint32 == -1

\* unix.Getxattr(fsPath, attr, dest) with len(dest) = size: the outcomes the
\* system may answer with.  A dest of no bytes asks for the size alone.
Getxattr(file, attr, size) ==
    { [n |-> -1, bytes |-> << >>, err |-> EACCES] }
    \cup
    (IF file.xattr[attr] = << >>
     THEN { [n |-> -1, bytes |-> << >>, err |-> ENODATA] }
     ELSE LET v == file.xattr[attr][1]
          IN  IF size = 0 THEN { [n |-> Len(v), bytes |-> << >>, err |-> ErrNil] }
              ELSE IF Len(v) > size THEN { [n |-> -1, bytes |-> << >>, err |-> ERANGE] }
              ELSE { [n |-> Len(v), bytes |-> v, err |-> ErrNil] })

\* info.Mode().Perm(): the nine permission bits
Perm(mode) == mode % 512

\* bootstrapACL with the user and the group permission exchanged
bootstrapACL_swapped(acl, file) ==
    LET info == file.stat
    IN  IF info.err # ErrNil THEN [acl |-> acl, err |-> info.err]
        ELSE IF ~info.sys THEN [acl |-> acl, err |-> ErrSys]
        ELSE LET perm == Perm(info.Mode)
                 UserEntry == NewEntry(TAG_ACL_USER_OBJ, info.Uid, (perm \div 8) % 8)
                 GroupEntry == NewEntry(TAG_ACL_GROUP_OBJ, info.Gid, (perm \div 64) % 8)
                 MaskEntry == NewEntry(TAG_ACL_MASK, MaxUint32, 7)
                 OtherEntry == NewEntry(TAG_ACL_OTHER, MaxUint32, perm % 8)
             IN  [acl |-> [acl EXCEPT !.Entries =
                              @ \o << UserEntry, GroupEntry, OtherEntry, MaskEntry >>],
                  err |-> ErrNil]

\* bootstrapACL: os.Stat, then the four entries of the owner, the group, the
\* others and the mask appended to a.Entries
bootstrapACL(acl, file) ==
    LET info == file.stat
    IN  IF info.err # ErrNil THEN [acl |-> acl, err |-> info.err]
        ELSE IF ~info.sys THEN [acl |-> acl, err |-> ErrSys]
        ELSE LET perm == Perm(info.Mode)
                 UserEntry == NewEntry(TAG_ACL_USER_OBJ, info.Uid, (perm \div 64) % 8)
                 GroupEntry == NewEntry(TAG_ACL_GROUP_OBJ, info.Gid, (perm \div 8) % 8)
                 MaskEntry == NewEntry(TAG_ACL_MASK, MaxUint32, 7)
                 OtherEntry == NewEntry(TAG_ACL_OTHER, MaxUint32, perm % 8)
             IN  [acl |-> [acl EXCEPT !.Entries =
                              @ \o << UserEntry, GroupEntry, OtherEntry, MaskEntry >>],
                  err |-> ErrNil]

\* make([]byte, attrSize) after Getxattr has written the bytes read into it
Filled(size, bytes) == bytes \o [i \in 1..(size - Len(bytes)) |-> 0]

\* Load without the two assignments it starts with
Load_size_keep(acl, file, g) ==
    IF g.err = ENODATA
    THEN LET r == bootstrapACL(acl, file)
         IN  [acl |-> r.acl, err |-> r.err, boot |-> TRUE, done |-> TRUE]
    ELSE IF g.err # ErrNil
    THEN [acl |-> acl, err |-> g.err, boot |-> FALSE, done |-> TRUE]
    ELSE [acl |-> acl, err |-> ErrNil, boot |-> FALSE, done |-> FALSE]

\* Load up to its second Getxattr, g being the answer to the first: the ACL,
\* the error, whether bootstrapACL was called and whether Load has returned
Load_size(acl, file, g) ==
    LET a == ACLValue(2, << >>)
    IN  IF g.err = ENODATA
        THEN LET r == bootstrapACL(a, file)
             IN  [acl |-> r.acl, err |-> r.err, boot |-> TRUE, done |-> TRUE]
        ELSE IF g.err # ErrNil
        THEN [acl |-> a, err |-> g.err, boot |-> FALSE, done |-> TRUE]
        ELSE [acl |-> a, err |-> ErrNil, boot |-> FALSE, done |-> FALSE]

\* Load returning after its second Getxattr without parsing what it read
Load_read_noParse(acl, attrSize, g) ==
    IF g.err # ErrNil THEN [acl |-> acl, err |-> g.err, bytes |-> << >>]
    ELSE [acl |-> acl, err |-> ErrNil, bytes |-> Filled(attrSize, g.bytes)]

\* Load from its second Getxattr, g being the answer to it: the ACL, the
\* error and the buffer handed to parse
Load_read(acl, attrSize, g) ==
    IF g.err # ErrNil THEN [acl |-> acl, err |-> g.err, bytes |-> << >>]
    ELSE LET attrValue == Filled(attrSize, g.bytes)
             r == parse(acl, attrValue)
         IN  [acl |-> r.acl, err |-> r.err, bytes |-> attrValue]

\* a.Load(fsPath, attr), to its return or to its second Getxattr
DoLoad(n, attr) ==
    /\ frame = NoFrame
    /\ \E g \in Getxattr(fs, attr, 0) :
          LET r == Load_size(acls[n], fs, g)
          IN  /\ acls' = [acls EXCEPT ![n] = r.acl]
              /\ IF r.done
                 THEN /\ last' = [Call("Load", n, << attr >>, acls) EXCEPT
                                    !.err = r.err, !.boot = r.boot, !.io = << g >>]
                      /\ frame' = frame
                 ELSE /\ last' = [Call("Load: size", n, << attr >>, acls) EXCEPT
                                    !.io = << g >>]
                      /\ frame' = [pc |-> "read", on |-> n, attr |-> attr,
                                   attrSize |-> g.n, io |-> << g >>, pre |-> << acls >>]
    /\ UNCHANGED <<fs, mem>>

\* the rest of Load: the second Getxattr and parse
DoLoadRead ==
    /\ frame.pc = "read"
    /\ \E g \in Getxattr(fs, frame.attr, frame.attrSize) :
          LET r == Load_read(acls[frame.on], frame.attrSize, g)
          IN  /\ acls' = [acls EXCEPT ![frame.on] = r.acl]
              /\ last' = [Call("Load", frame.on, << frame.attr >>, frame.pre[1]) EXCEPT
                            !.err = r.err, !.bytes = r.bytes, !.io = frame.io \o << g >>]
    /\ frame' = NoFrame
    /\ UNCHANGED <<fs, mem>>

\* a.Apply(fsPath, attr): ToByteSlice, then Setxattr, which may be refused
DoApply(n, attr) ==
    /\ frame = NoFrame
    /\ \E r \in ToByteSlice(acls[n]), err \in {ErrNil, EACCES} :
          /\ acls' = [acls EXCEPT ![n] = r.acl]
          /\ fs' = IF err = ErrNil THEN [fs EXCEPT !.xattr[attr] = << r.bytes >>] ELSE fs
          /\ last' = [Call("Apply", n, << attr >>, acls) EXCEPT !.err = err, !.bytes = r.bytes]
    /\ UNCHANGED <<frame, mem>>

\* the attribute values of the model: absent, or one of these buffers
LoadBuffers ==
    { << >>, << 2, 0, 0 >>, PutUint32(2),
      PutUint32(2) \o ACLEntry_ToByteSlice(NewEntry(TAG_ACL_USER, 5556, 7)),
      PutUint32(2) \o ACLEntry_ToByteSlice(NewEntry(TAG_ACL_USER, 5556, 7)) \o << 8, 0, 7, 0 >>,
      PutUint32(3) \o ACLEntry_ToByteSlice(NewEntry(TAG_ACL_USER, 5556, 7))
                   \o ACLEntry_ToByteSlice(NewEntry(TAG_ACL_GROUP, 5556, 5)) }
XattrValues == { << >> } \cup { << b >> : b \in LoadBuffers }

\* greatest mode of SpecBootstrap: the nine permission bits and one above
MaxMode == 1023

StatOf(uid, gid, mode) == [err |-> ErrNil, sys |-> TRUE, Uid |-> uid, Gid |-> gid, Mode |-> mode]
\* stat fails, or gives no system record, or gives owner, group and mode
StatValues ==
    { [err |-> ENOENT, sys |-> FALSE, Uid |-> 0, Gid |-> 0, Mode |-> 0],
      [err |-> ErrNil, sys |-> FALSE, Uid |-> 0, Gid |-> 0, Mode |-> 0] }
    \cup { StatOf(1000, 100, mode) : mode \in {416, 493} }

\* another process writes or removes the attribute Load is reading while
\* Load is between its two system calls
EnvSetxattr(v) ==
    /\ frame.pc = "read"
    /\ fs.xattr[frame.attr] # v
    /\ fs' = [fs EXCEPT !.xattr[frame.attr] = v]
    /\ UNCHANGED <<acls, last, frame, mem>>

InitLoad ==
    /\ acls = [n \in Names |-> ZeroACL]
    /\ last = Call("none", "a", << >>, acls)
    /\ fs \in [xattr : [Attrs -> XattrValues], stat : StatValues]
    /\ frame = NoFrame
    /\ mem = NoMem

NextLoad ==
    \/ \E attr \in Attrs : DoLoad("a", attr)
    \/ DoLoadRead
    \/ \E attr \in Attrs : DoApply("a", attr)
    \/ \E v \in XattrValues : EnvSetxattr(v)

SpecLoad == InitLoad /\ [][NextLoad]_vars

\* SpecBootstrap: Load and Apply on a file that starts without ACL
\* attributes, for every owner, group and mode
InitBootstrap ==
    /\ acls = [n \in Names |-> ZeroACL]
    /\ last = Call("none", "a", << >>, acls)
    /\ fs \in [xattr : { [a \in Attrs |-> << >>] },
               stat : { StatOf(uid, gid, mode) :
                          uid \in {0, 1000}, gid \in {100}, mode \in 0..MaxMode }]
    /\ frame = NoFrame
    /\ mem = NoMem

NextBootstrap ==
    \/ DoLoad("a", PosixACLAccess)
    \/ DoLoadRead
    \/ DoApply("a", PosixACLAccess)
    \/ \E v \in { << >>, << PutUint32(2) >> } : EnvSetxattr(v)

SpecBootstrap == InitBootstrap /\ [][NextBootstrap]_vars

(***************************************************************************)
(* SpecPerm: the conversions between a permission and its "rwx" string.    *)
(***************************************************************************)
\* the greatest uint16
MaxUint16 == 65535
\* longest string handed to PermStringToUint
MaxStrLen == 4

PermChars == {"r", "w", "x", "-", "R", "U+00E9"}
PermStrings == SeqsUpTo(PermChars, MaxStrLen)

\* a permission or a string to convert
InitPerm ==
    /\ acls = [n \in Names |-> ZeroACL]
    /\ \/ \E p \in 0..MaxUint16 : last = Call("perm", "a", << p >>, acls)
       \/ \E str \in PermStrings : last = Call("string", "a", << str >>, acls)
    /\ fs = NoFile
    /\ frame = NoFrame
    /\ mem = NoMem

\* str := PermUintToString(p)
DoPermUintToString ==
    /\ Local
    /\ last.op = "perm"
    /\ acls' = acls
    /\ last' = [Call("PermUintToString", "a", last.arg, acls) EXCEPT
                  !.result = << PermUintToString(last.arg[1]) >>]

\* result, err := PermStringToUint(str), str a string given or the string
\* PermUintToString returned; rest keeps the permission that string was of
DoPermStringToUint ==
    /\ Local
    /\ last.op \in {"string", "PermUintToString"}
    /\ acls' = acls
    /\ LET str == IF last.op = "string" THEN last.arg[1] ELSE last.result[1]
           r == PermStringToUint(str)
       IN  last' = [Call("PermStringToUint", "a", << str >>, acls) EXCEPT
                      !.result = << r.p >>, !.err = r.err,
                      !.rest = IF last.op = "string" THEN << >> ELSE last.arg]

NextPerm ==
    \/ DoPermUintToString
    \/ DoPermStringToUint

SpecPerm == InitPerm /\ [][NextPerm]_vars

(***************************************************************************)
(* SpecSlice: a.Entries as a Go slice, a length over a backing array, and  *)
(* the slices GetEntries has returned to the caller.  The methods of ACL   *)
(* write the backing array of a.Entries in place; acls["a"] is what can    *)
(* be read through a.Entries after each step.                              *)
(***************************************************************************)
\* most slices the caller keeps from GetEntries
MaxGot == 2
\* most entries a.Entries is grown to in SpecSlice
MaxSliceLen == 2
\* most writes the caller makes to the slices it keeps
MaxWrites == 1

\* the arrays: one for a.Entries, one for each slice kept, one to grow into
Arrays == 1..(MaxGot + 2)

\* a slot of an array that was never written: a nil pointer
NilEntry == [Tag |-> 0, Perm |-> 0, Id |-> 0]

\* the elements of a slice; a slice of array 0 is a nil slice
View(heap, sl) == IF sl.arr = 0 THEN << >> ELSE SubSeq(heap[sl.arr], 1, sl.len)

GotViews(m) == [i \in 1..Len(m.got) |-> View(m.heap, m.got[i])]

\* the arrays a slice of the program points to
Refs(m) == {m.ent.arr} \cup { m.got[i].arr : i \in 1..Len(m.got) }

\* the greatest length of a slice over array i
Used(m, i) ==
    LET lens == { m.got[j].len : j \in { x \in 1..Len(m.got) : m.got[x].arr = i } }
                \cup (IF m.ent.arr = i THEN {m.ent.len} ELSE {})
    IN  CHOOSE n \in lens : \A k \in lens : k <= n

\* the arrays no slice points to any more are given back; a slot behind the
\* end of every slice over its array is not read before append writes it,
\* and is kept as nil
Swept(m) ==
    [m EXCEPT !.heap =
        [i \in Arrays |->
            IF i \in Refs(m)
            THEN [k \in 1..Len(@[i]) |-> IF k <= Used(m, i) THEN @[i][k] ELSE NilEntry]
            ELSE << >>],
              !.closed = @ \cap Refs(m)]

\* the arrays numbered in the order a.Entries and the slices kept point to
\* them: which number an array has is not something the program can see
Collect(m) ==
    LET s == Swept(m)
        order == << s.ent.arr >> \o [i \in 1..Len(s.got) |-> s.got[i].arr]
        first(a) == CHOOSE k \in 1..Len(order) : order[k] = a /\ \A j \in 1..k - 1 : order[j] # a
        live == Refs(s) \ {0}
        id(a) == IF a = 0 THEN 0
                 ELSE Cardinality({ b \in live : first(b) <= first(a) })
    IN  [heap |-> [j \in Arrays |->
                     IF \E a \in live : id(a) = j
                     THEN s.heap[CHOOSE a \in live : id(a) = j]
                     ELSE << >>],
         closed |-> { id(a) : a \in s.closed },
         ent |-> [s.ent EXCEPT !.arr = id(@)],
         got |-> [i \in 1..Len(s.got) |-> [s.got[i] EXCEPT !.arr = id(@)]],
         writes |-> s.writes]

NewArray(m) == CHOOSE i \in Arrays \ Refs(m) : \A j \in Arrays \ Refs(m) : i <= j

\* append(sl, xs...): the heap, the arrays known to be full and the slice
\* returned. The slots of an array in the heap are the ones written so far;
\* its capacity is at least that, and which capacity the runtime gave it is
\* not fixed by the program. Up to the slots written append is in place;
\* beyond them it is in place or into a new array, and once it went into a
\* new array the old one is known to be full
SliceAppend(m, sl, xs) ==
    LET need == sl.len + Len(xs)
        ext == IF sl.arr = 0 THEN 0 ELSE Len(m.heap[sl.arr])
        inPlace == [heap |-> [m.heap EXCEPT ![sl.arr] =
                                [k \in 1..(IF need > ext THEN need ELSE ext) |->
                                    IF k > sl.len /\ k <= need THEN xs[k - sl.len] ELSE @[k]]],
                    closed |-> m.closed,
                    sl |-> [arr |-> sl.arr, len |-> need]]
        moved == [heap |-> [m.heap EXCEPT ![NewArray(m)] = View(m.heap, sl) \o xs],
                  closed |-> m.closed \cup ({sl.arr} \ {0}),
                  sl |-> [arr |-> NewArray(m), len |-> need]]
    IN  IF sl.arr # 0 /\ need <= ext THEN { inPlace }
        ELSE IF sl.arr = 0 \/ sl.arr \in m.closed THEN { moved }
        ELSE { inPlace, moved }

\* deleteEntryPos on the slice: append(a.Entries[:pos], a.Entries[pos+1:]...)
Slice_deleteEntryPos(m, pos) ==
    LET r == CHOOSE x \in SliceAppend(m, [arr |-> m.ent.arr, len |-> pos],
                                      SubSeq(View(m.heap, m.ent), pos + 2, m.ent.len)) : TRUE
    IN  [m EXCEPT !.heap = r.heap, !.closed = r.closed, !.ent = r.sl]

\* DeleteEntry on the slice
Slice_DeleteEntry(m, e) ==
    LET pos == EntryExists(ACLValue(2, View(m.heap, m.ent)), e)
    IN  IF pos >= 0 THEN Slice_deleteEntryPos(m, pos) ELSE m

\* AddEntry on the slice: DeleteEntry, then a.Entries = append(a.Entries, e)
Slice_AddEntry(m, e) ==
    LET d == Slice_DeleteEntry(m, e)
    IN  { [d EXCEPT !.heap = r.heap, !.closed = r.closed, !.ent = r.sl]
          : r \in SliceAppend(d, d.ent, << e >>) }

\* sort on the slice: sort.Slice exchanges the elements in the array
Slice_sort(m) ==
    IF m.ent.arr = 0 THEN { m }
    ELSE { [m EXCEPT !.heap[m.ent.arr] =
              [k \in 1..Len(@) |-> IF k <= m.ent.len THEN sorted[k] ELSE @[k]]]
           : sorted \in SortOutcomes(View(m.heap, m.ent)) }

\* GetEntries handing out a.Entries itself
GetEntries_noCopy(m) == { [heap |-> m.heap, sl |-> m.ent] }

\* GetEntries: a new slice over a new array holding the entries of a.Entries
GetEntries(m) ==
    { [heap |-> [m.heap EXCEPT ![NewArray(m)] = View(m.heap, m.ent)],
       sl |-> [arr |-> NewArray(m), len |-> m.ent.len]] }

\* the step to memory m2 by the call op: acls["a"] is what a.Entries holds
\* after it
SliceStep(m2, op, arg) ==
    /\ frame = NoFrame
    /\ mem' = Collect(m2)
    /\ acls' = [acls EXCEPT !["a"].Entries = View(m2.heap, m2.ent)]
    /\ last' = Call(op, "a", arg, << >>)
    /\ UNCHANGED <<fs, frame>>

DoSliceAddEntry(e) ==
    /\ mem.ent.len < MaxSliceLen \/ EntryExists(acls["a"], e) >= 0
    /\ \E m2 \in Slice_AddEntry(mem, e) :
          SliceStep(m2, "AddEntry", << >>)

DoSliceDeleteEntry(e) ==
    /\ mem.ent.len > 0
    /\ SliceStep(Slice_DeleteEntry(mem, e), "DeleteEntry", << >>)

\* ToByteSlice and String: what they do to a.Entries is the sort
DoSliceSort(op) ==
    \E m2 \in Slice_sort(mem) : SliceStep(m2, op, << >>)

\* entries := a.GetEntries(), kept by the caller
DoGetEntries ==
    /\ Len(mem.got) < MaxGot
    /\ \E r \in GetEntries(mem) :
          SliceStep([mem EXCEPT !.heap = r.heap, !.got = Append(@, r.sl)],
                    "GetEntries", << >>)

\* entries = append(entries, e) on the i-th slice kept
DoGotAppend(i, e) ==
    /\ mem.writes < MaxWrites
    /\ \E r \in SliceAppend(mem, mem.got[i], << e >>) :
          SliceStep([mem EXCEPT !.heap = r.heap, !.closed = r.closed, !.got[i] = r.sl,
                                !.writes = @ + 1],
                    "append", << i >>)

\* entries[k-1] = e on the i-th slice kept
DoGotSet(i, k, e) ==
    /\ mem.writes < MaxWrites
    /\ k <= mem.got[i].len
    /\ SliceStep([mem EXCEPT !.heap[mem.got[i].arr][k] = e, !.writes = @ + 1], "set", << i >>)

\* the entries AddEntry and DeleteEntry are called with in SpecSlice, and
\* the entry the caller writes into the slices it keeps
SliceEntries == { NewEntry(TAG_ACL_USER, 5556, 7), NewEntry(TAG_ACL_USER_OBJ, 5558, 7) }
CallerEntry == NewEntry(TAG_ACL_OTHER, 9, 0)

\* &ACL{version: 2}: a.Entries is a nil slice
InitSlice ==
    /\ acls = [n \in Names |-> ACLValue(2, << >>)]
    /\ last = Call("none", "a", << >>, << >>)
    /\ fs = NoFile
    /\ frame = NoFrame
    /\ mem = [heap |-> [i \in Arrays |-> << >>], closed |-> {},
              ent |-> [arr |-> 0, len |-> 0], got |-> << >>, writes |-> 0]

NextSlice ==
    \/ \E e \in SliceEntries : DoSliceAddEntry(e)
    \/ \E e \in SliceEntries : DoSliceDeleteEntry(e)
    \/ \E op \in {"ToByteSlice", "String"} : DoSliceSort(op)
    \/ DoGetEntries
    \/ \E i \in 1..Len(mem.got) : DoGotAppend(i, CallerEntry)
    \/ \E i \in 1..Len(mem.got), k \in 1..MaxSliceLen + MaxWrites : DoGotSet(i, k, CallerEntry)

SpecSlice == InitSlice /\ [][NextSlice]_vars

(***************************************************************************)
(* SpecWith: the permission methods of ACLEntry.  The entries are objects  *)
(* the program holds pointers to: mem.heap[i] is the i-th entry allocated. *)
(* A method is called on the entry i and returns a truth value or the      *)
(* pointer to an entry.                                                    *)
(***************************************************************************)
\* most entries allocated in SpecWith
MaxObjects == 3

RECURSIVE BitAnd(_, _)
\* a & b on unsigned numbers
BitAnd(a, b) ==
    IF a = 0 \/ b = 0 THEN 0
    ELSE (IF a % 2 = 1 /\ b % 2 = 1 THEN 1 ELSE 0) + 2 * BitAnd(a \div 2, b \div 2)

RECURSIVE BitAndNot(_, _)
\* a &^ b on unsigned numbers
BitAndNot(a, b) ==
    IF a = 0 THEN 0
    ELSE (IF a % 2 = 1 /\ b % 2 = 0 THEN 1 ELSE 0) + 2 * BitAndNot(a \div 2, b \div 2)

\* HasPerm answering for any one of the bits
HasPerm_anyBit(e, perm) == BitAnd(e.Perm, perm) # 0

HasPerm(e, perm) == BitAnd(e.Perm, perm) = perm

\* WithPerm setting the bits in the entry it is called on
WithPerm_inPlace(heap, i, perm) ==
    [heap |-> [heap EXCEPT ![i].Perm = BitOr(@, perm)], result |-> i]

\* the entries allocated after the call and the pointer returned
WithPerm(heap, i, perm) ==
    [heap |-> Append(heap, NewEntry(heap[i].Tag, heap[i].Id, BitOr(heap[i].Perm, perm))),
     result |-> Len(heap) + 1]

WithoutPerm(heap, i, perm) ==
    [heap |-> Append(heap, NewEntry(heap[i].Tag, heap[i].Id, BitAndNot(heap[i].Perm, perm))),
     result |-> Len(heap) + 1]

WithExactPerm(heap, i, perm) ==
    [heap |-> Append(heap, NewEntry(heap[i].Tag, heap[i].Id, perm)),
     result |-> Len(heap) + 1]

\* the call op on entry i that returns r
WithStep(op, i, perm, r) ==
    /\ frame = NoFrame
    /\ Len(mem.heap) < MaxObjects
    /\ mem' = [mem EXCEPT !.heap = r.heap]
    /\ last' = [Call(op, "a", << i, perm >>, mem.heap) EXCEPT !.result = << r.result >>]
    /\ UNCHANGED <<acls, fs, frame>>

DoWithPerm(i, perm) == WithStep("WithPerm", i, perm, WithPerm(mem.heap, i, perm))
DoWithoutPerm(i, perm) == WithStep("WithoutPerm", i, perm, WithoutPerm(mem.heap, i, perm))
DoWithExactPerm(i, perm) == WithStep("WithExactPerm", i, perm, WithExactPerm(mem.heap, i, perm))

DoHasPerm(i, perm) ==
    /\ Local
    /\ acls' = acls
    /\ last' = [Call("HasPerm", "a", << i, perm >>, mem.heap) EXCEPT
                  !.equal = HasPerm(mem.heap[i], perm)]

\* the bits the methods are called with: none, read and write, and the
\* execute bit with the highest bit of the uint16
WithBits == {PermNone, 6, 32769}

\* one entry: a user with read alone, or a mask with all of rwx and the
\* highest bit
InitWith ==
    /\ acls = [n \in Names |-> ACLValue(2, << >>)]
    /\ last = Call("none", "a", << >>, << >>)
    /\ fs = NoFile
    /\ frame = NoFrame
    /\ \E e \in { NewEntry(TAG_ACL_USER, 5556, PermRead), NewEntry(TAG_ACL_MASK, -1, 32775) } :
          mem = [NoMem EXCEPT !.heap = << e >>]

NextWith ==
    \/ \E i \in 1..Len(mem.heap), perm \in WithBits : DoWithPerm(i, perm)
    \/ \E i \in 1..Len(mem.heap), perm \in WithBits : DoWithoutPerm(i, perm)
    \/ \E i \in 1..Len(mem.heap), perm \in WithBits : DoWithExactPerm(i, perm)
    \/ \E i \in 1..Len(mem.heap), perm \in WithBits : DoHasPerm(i, perm)

SpecWith == InitWith /\ [][NextWith]_vars

(***************************************************************************)
(* SpecSort: ToByteSlice and String on ACLs of up to MaxSortLen entries.   *)
(***************************************************************************)
\* n entries, the k-th with id k, of ascending or descending tags, the j-th
\* given the tag of the i-th
SortInput(n, up, i, j) ==
    [k \in 1..n |->
        LET tagOf(m) == IF up THEN m ELSE n + 1 - m
        IN  NewEntry(IF k = j THEN tagOf(i) ELSE tagOf(k), k, 7)]

SortInputs ==
    UNION { { SortInput(n, up, i, j) : up \in BOOLEAN, i \in 1..n, j \in 1..n }
            : n \in 0..MaxSortLen }

InitSort ==
    /\ acls \in { [a |-> ACLValue(2, s), b |-> ACLValue(2, << >>)] : s \in SortInputs }
    /\ last = Call("none", "a", << >>, acls)
    /\ fs = NoFile
    /\ frame = NoFrame
    /\ mem = NoMem

NextSort ==
    \/ DoToByteSlice("a")
    \/ DoString("a")

SpecSort == InitSort /\ [][NextSort]_vars

(***************************************************************************)
(* Properties.                                                             *)
(***************************************************************************)
NoDuplicateKeys(acl) ==
    \A i, j \in 1..Len(acl.Entries) :
        i # j => ~equalTagID(acl.Entries[i], acl.Entries[j])

Count(s, e) == Cardinality({ i \in 1..Len(s) : s[i] = e })

\* the same entries, each as often, in any order
SameEntries(s, t) ==
    /\ Len(s) = Len(t)
    /\ \A i \in 1..Len(s) : Count(s, s[i]) = Count(t, s[i])

TagsAscending(s) == \A i \in 1..Len(s) - 1 : s[i].Tag <= s[i + 1].Tag

DistinctTags(s) == \A i, j \in 1..Len(s) : i # j => s[i].Tag # s[j].Tag

\* C1: from an empty ACL, whatever AddEntry, DeleteEntry, ToByteSlice, String
\* and Equal calls are made, no two stored entries have the same tag and id.
C1_UniqueKeys == \A n \in Names : NoDuplicateKeys(acls[n])

\* an AddEntry has replaced an entry of an ACL of three entries
C1_Witness ==
    /\ last.op = "AddEntry"
    /\ EntryExists(last.pre[last.on], last.arg[1]) >= 0
    /\ Len(acls[last.on].Entries) = 3

\* the tag code the i-th 8-byte record of a serialized ACL carries
RecordTag(bytes, i) == bytes[4 + 8 * (i - 1) + 1] + 256 * bytes[4 + 8 * (i - 1) + 2]

\* C6: ToByteSlice writes the version in 4 little-endian bytes, then one 8-byte
\* record per stored entry, 4 + 8n bytes, the tag codes never decreasing; two
\* ACLs of the same version holding the same entries, of pairwise distinct
\* tags, in different orders serialize to the same bytes.
C6_SerializeCanonical ==
    /\ last.op = "ToByteSlice" =>
          LET pre == last.pre[last.on]
              n == Len(pre.Entries)
              bytes == last.bytes
          IN  /\ Len(bytes) = 4 + 8 * n
              /\ bytes[1] + 256 * bytes[2] + 65536 * bytes[3] + 16777216 * bytes[4]
                    = pre.Version
              /\ \A i \in 1..n - 1 : RecordTag(bytes, i) <= RecordTag(bytes, i + 1)
              /\ \A i \in 1..n :
                    \E k \in 1..n :
                        SubSeq(bytes, 4 + 8 * (i - 1) + 1, 4 + 8 * i)
                          = ACLEntry_ToByteSlice(pre.Entries[k])
    /\ (/\ acls["a"].Version = acls["b"].Version
        /\ SameEntries(acls["a"].Entries, acls["b"].Entries)
        /\ DistinctTags(acls["a"].Entries))
       => \A x \in ToByteSlice(acls["a"]), y \in ToByteSlice(acls["b"]) : x.bytes = y.bytes

\* ToByteSlice has written an ACL that was stored out of tag order, and the
\* other ACL holds the same entries, of distinct tags, in another order
C6_Witness ==
    /\ last.op = "ToByteSlice"
    /\ ~TagsAscending(last.pre[last.on].Entries)
    /\ last.pre["a"].Version = last.pre["b"].Version
    /\ SameEntries(last.pre["a"].Entries, last.pre["b"].Entries)
    /\ DistinctTags(last.pre["a"].Entries)
    /\ last.pre["a"].Entries # last.pre["b"].Entries

\* C8: Equal is true exactly when the two ACLs have the same version and hold
\* the same entries, in whatever order they were inserted.
C8_EqualIgnoresOrder ==
    last.op = "Equal" =>
        (last.equal <=>
            /\ last.pre["a"].Version = last.pre["b"].Version
            /\ SameEntries(last.pre["a"].Entries, last.pre["b"].Entries))

\* C9, as claimed: Equal leaves the stored entries of both ACLs in the order
\* they were in.
C9_EqualKeepsOrder == last.op = "Equal" => acls = last.pre

\* C9, amended: Equal leaves the version and the entries of both ACLs the
\* same; it keeps their stored order when the entry counts or the versions
\* differ, and otherwise reorders both ACLs in place in ascending tag order.
C9_EqualSortsInPlace ==
    last.op = "Equal" =>
        /\ \A n \in Names :
              /\ acls[n].Version = last.pre[n].Version
              /\ SameEntries(acls[n].Entries, last.pre[n].Entries)
        /\ IF \/ Len(last.pre["a"].Entries) # Len(last.pre["b"].Entries)
              \/ last.pre["a"].Version # last.pre["b"].Version
           THEN acls = last.pre
           ELSE \A n \in Names : TagsAscending(acls[n].Entries)

\* Equal, called on ACLs of matching entry count and version, has reordered
\* the stored entries of its receiver
C9_Witness ==
    /\ last.op = "Equal"
    /\ acls["a"] # last.pre["a"]
    /\ SameEntries(acls["a"].Entries, last.pre["a"].Entries)

\* the first position of x in s
PositionIn(s, x) == CHOOSE k \in 1..Len(s) : s[k] = x /\ \A m \in 1..k - 1 : s[m] # x

\* t holds the entries of s (pairwise different), those of equal tag in the
\* order they have in s
KeepsEqualTagOrder(s, t) ==
    \A i, j \in 1..Len(s) :
        (i < j /\ s[i].Tag = s[j].Tag) => PositionIn(t, s[i]) < PositionIn(t, s[j])

\* C2: AddEntry of an entry whose tag and id are stored leaves exactly one
\* entry of that tag and id, with the permission given, and the count the
\* same; otherwise the count grows by one; AddEntry returns no error.
C2_AddEntryReplaces ==
    last.op = "AddEntry" =>
        LET pre == last.pre[last.on]
            post == acls[last.on]
            e == last.arg[1]
            held == { i \in 1..Len(post.Entries) : equalTagID(post.Entries[i], e) }
        IN  /\ last.err = ErrNil
            /\ EntryExists(pre, e) >= 0 =>
                  /\ Cardinality(held) = 1
                  /\ \A i \in held : post.Entries[i].Perm = e.Perm
                  /\ Len(post.Entries) = Len(pre.Entries)
            /\ EntryExists(pre, e) < 0 => Len(post.Entries) = Len(pre.Entries) + 1

\* C3: the bytes ToByteSlice writes for an ACL of pairwise different keys
\* parse into a fresh ACL without error, the parsed ACL equals the original,
\* and the records are in ascending tag order.
C3_RoundTrip ==
    (last.op = "ToByteSlice" /\ NoDuplicateKeys(last.pre["a"])) =>
        LET p == parse(ZeroACL, last.bytes)
        IN  /\ p.err = ErrNil
            /\ \A r \in Equal(p.acl, acls["a"]) : r.result
            /\ TagsAscending(p.acl.Entries)

\* the entry the i-th 8-byte record of a buffer holds
RecordAt(bytes, i) ==
    LET at == 4 + 8 * (i - 1)
    IN  [Tag |-> bytes[at + 1] + 256 * bytes[at + 2],
         Perm |-> bytes[at + 3] + 256 * bytes[at + 4],
         Id |-> bytes[at + 5] + 256 * bytes[at + 6] + 65536 * bytes[at + 7]
                  + 16777216 * bytes[at + 8]]

\* C4: parse of a buffer of 4 + 8k bytes, k >= 0, returns no error, sets the
\* version to the little-endian value of the first 4 bytes and stores the k
\* records in the order of the buffer.
C4_ParseWholeRecords ==
    (last.op = "parse" /\ Len(last.bytes) >= 4 /\ (Len(last.bytes) - 4) % 8 = 0) =>
        LET bytes == last.bytes
            k == (Len(bytes) - 4) \div 8
        IN  /\ last.err = ErrNil
            /\ acls["a"].Version
                  = bytes[1] + 256 * bytes[2] + 65536 * bytes[3] + 16777216 * bytes[4]
            /\ Len(acls["a"].Entries) = k
            /\ \A i \in 1..k : acls["a"].Entries[i] = RecordAt(bytes, i)

\* C5: parse of fewer than 4 bytes fails with the header error; parse of at
\* least 4 bytes whose rest is no multiple of 8 fails with the malformed-data
\* error.
C5_ParseErrors ==
    last.op = "parse" =>
        /\ Len(last.bytes) < 4 => last.err = ErrHeader
        /\ (Len(last.bytes) >= 4 /\ (Len(last.bytes) - 4) % 8 # 0) => last.err = ErrMalformed

\* parse has refused a buffer of one whole record and part of a second
C5_Witness ==
    /\ last.op = "parse"
    /\ Len(last.bytes) > 12
    /\ (Len(last.bytes) - 4) % 8 # 0
    /\ last.err = ErrMalformed

C10_ParseUniqueKeys == (last.op = "parse" /\ last.err = ErrNil) => NoDuplicateKeys(acls["a"])

\* C11: a parse that returns an error leaves the version and the entries of
\* the ACL as they were before the call.
C11_ParseFailureKeepsNothing ==
    (last.op = "parse" /\ last.err # ErrNil) => acls = last.pre

\* some stored entry has the tag and the id of e
HasKey(acl, e) ==
    \E i \in 1..Len(acl.Entries) : acl.Entries[i].Tag = e.Tag /\ acl.Entries[i].Id = e.Id

\* C12: DeleteEntry of an entry whose tag and id are stored returns the stored
\* entry of that tag and id, with the stored permission; the count drops by
\* one and the other entries stay, in the order they had.
C12_DeleteEntryRemovesOne ==
    (last.op = "DeleteEntry" /\ HasKey(last.pre[last.on], last.arg[1])) =>
        LET pre == last.pre[last.on]
            post == acls[last.on]
            e == last.arg[1]
        IN  /\ Len(last.result) = 1
            /\ Len(post.Entries) = Len(pre.Entries) - 1
            /\ post.Version = pre.Version
            /\ \E p \in 1..Len(pre.Entries) :
                  /\ last.result[1] = pre.Entries[p]
                  /\ pre.Entries[p].Tag = e.Tag /\ pre.Entries[p].Id = e.Id
                  /\ \A i \in 1..p - 1 : post.Entries[i] = pre.Entries[i]
                  /\ \A i \in p..Len(post.Entries) : post.Entries[i] = pre.Entries[i + 1]

\* DeleteEntry, given another permission than the stored one, has removed the
\* first of three entries
C12_Witness ==
    /\ last.op = "DeleteEntry"
    /\ Len(last.pre[last.on].Entries) = 3
    /\ equalTagID(last.pre[last.on].Entries[1], last.arg[1])
    /\ last.pre[last.on].Entries[1].Perm # last.arg[1].Perm
    /\ Len(acls[last.on].Entries) = 2

\* C13: DeleteEntry of an entry whose tag and id are not stored returns nil
\* and leaves the version, the entries and their order as they were.
C13_DeleteEntryAbsent ==
    (last.op = "DeleteEntry" /\ ~HasKey(last.pre[last.on], last.arg[1])) =>
        /\ last.result = << >>
        /\ acls = last.pre

\* DeleteEntry has been called for a group while an entry of a user of the
\* same id, and no entry of the group, is stored
C13_Witness ==
    /\ last.op = "DeleteEntry"
    /\ ~HasKey(last.pre[last.on], last.arg[1])
    /\ \E i \in 1..Len(last.pre[last.on].Entries) :
          last.pre[last.on].Entries[i].Id = last.arg[1].Id
    /\ Len(acls[last.on].Entries) >= 2

\* C14: GetEntry returns the stored entry that has the tag and the id of the
\* key, with the stored permission whatever the permission of the key, and
\* nil when no stored entry has them; the ACL is as it was.
C14_GetEntry ==
    last.op = "GetEntry" =>
        LET pre == last.pre[last.on]
            k == last.arg[1]
        IN  /\ acls = last.pre
            /\ IF HasKey(pre, k)
               THEN /\ Len(last.result) = 1
                    /\ last.result[1].Tag = k.Tag /\ last.result[1].Id = k.Id
                    /\ \E i \in 1..Len(pre.Entries) : pre.Entries[i] = last.result[1]
               ELSE last.result = << >>

\* GetEntry has returned an entry whose permission is not that of the key,
\* from an ACL that also holds an entry of the same id and another tag
C14_Witness ==
    /\ last.op = "GetEntry"
    /\ Len(last.result) = 1
    /\ last.result[1].Perm # last.arg[1].Perm
    /\ \E i \in 1..Len(acls[last.on].Entries) :
          /\ acls[last.on].Entries[i].Id = last.arg[1].Id
          /\ acls[last.on].Entries[i].Tag # last.arg[1].Tag

\* C16: when ToByteSlice or String has returned, the stored entries of the
\* ACL it was called on are in non-decreasing order of their tags.
C16_SortedAfterwards ==
    last.op \in {"ToByteSlice", "String"} => TagsAscending(acls[last.on].Entries)

\* String has been called on an ACL of three entries whose first had the
\* greatest tag, and has changed the stored order
C16_Witness ==
    /\ last.op = "String"
    /\ Len(last.pre[last.on].Entries) = 3
    /\ last.pre[last.on].Entries[1].Tag > last.pre[last.on].Entries[3].Tag
    /\ acls[last.on].Entries # last.pre[last.on].Entries

\* C17: ACLEntry.ToByteSlice writes 8 bytes for any entry: the tag in bytes
\* 0-1, the permission in bytes 2-3, the id in bytes 4-7, each little-endian;
\* ACLEntry.parse of the 8 bytes returns an equal entry, nothing left over
\* and no error.
C17_EntryRoundTrip ==
    /\ last.op = "ACLEntry.ToByteSlice" =>
          LET e == last.arg[1]
              b == last.bytes
          IN  /\ Len(b) = 8
              /\ \A i \in 1..8 : b[i] \in 0..255
              /\ b[1] + 256 * b[2] = e.Tag
              /\ b[3] + 256 * b[4] = e.Perm
              /\ b[5] = e.Id % 256
              /\ b[6] = (e.Id \div 256) % 256
              /\ b[7] = (e.Id \div 65536) % 256
              /\ b[8] = (e.Id \div 16777216) % 256
    /\ (last.op = "ACLEntry.parse" /\ Len(last.bytes) = 8) =>
          /\ last.err = ErrNil
          /\ last.result = << last.arg[1] >>
          /\ last.rest = << >>

\* an entry of the greatest id and a permission above the three low bits
\* has been read back from its 8 bytes
C17_Witness ==
    /\ last.op = "ACLEntry.parse"
    /\ Len(last.bytes) = 8
    /\ last.arg[1].Id = -1
    /\ last.arg[1].Perm > 7
    /\ last.arg[1].Tag = 65535
    /\ last.err = ErrNil

\* C18: a Load that bootstraps from the owner uid, the group gid and the mode
\* stat reports leaves a version-2 ACL of exactly four entries:
\* USER_OBJ(uid, (mode>>6)&7), GROUP_OBJ(gid, (mode>>3)&7),
\* MASK(0xFFFFFFFF, 7) and OTHER(0xFFFFFFFF, mode&7), for every mode.
C18_Bootstrap ==
    (last.op = "Load" /\ last.boot /\ last.err = ErrNil) =>
        LET st == fs.stat
            acl == acls[last.on]
        IN  /\ acl.Version = 2
            /\ Len(acl.Entries) = 4
            /\ SameEntries(acl.Entries,
                  << [Tag |-> 1, Perm |-> (st.Mode \div 64) % 8, Id |-> st.Uid],
                     [Tag |-> 4, Perm |-> (st.Mode \div 8) % 8, Id |-> st.Gid],
                     [Tag |-> 16, Perm |-> 7, Id |-> -1],
                     [Tag |-> 32, Perm |-> st.Mode % 8, Id |-> -1] >>)

\* Load has bootstrapped from mode 01754: owner, group and others differ and
\* a bit above the nine permission bits is set
C18_Witness ==
    /\ last.op = "Load"
    /\ last.boot
    /\ last.err = ErrNil
    /\ fs.stat.Mode = 1004
    /\ fs.stat.Uid = 1000
    /\ Len(acls[last.on].Entries) = 4

\* C19: Load calls bootstrapACL exactly when an attribute read reports that
\* there is no attribute; any other error of an attribute read is returned as
\* it is, without bootstrapping; when the reads succeed, the ACL and the
\* error Load leaves are those of parse on the bytes read.
C19_LoadOutcome ==
    last.op = "Load" =>
        LET reads == last.io
        IN  /\ last.boot <=> \E i \in 1..Len(reads) : reads[i].err = ENODATA
            /\ \A i \in 1..Len(reads) :
                  reads[i].err \notin {ErrNil, ENODATA} =>
                      /\ last.err = reads[i].err
                      /\ ~last.boot
                      /\ acls[last.on].Entries = << >>
            /\ (\A i \in 1..Len(reads) : reads[i].err = ErrNil) =>
                  LET p == parse(ACLValue(2, << >>), reads[Len(reads)].bytes)
                  IN  acls[last.on] = p.acl /\ last.err = p.err

\* C20: for every permission p of 0..7, PermStringToUint of the string
\* PermUintToString(p) returns p and no error.
C20_PermRoundTrip ==
    (last.op = "PermStringToUint" /\ last.rest # << >> /\ last.rest[1] \in 0..7) =>
        /\ last.err = ErrNil
        /\ last.result = last.rest

\* the string of permission 3, write and execute, has been converted back
C20_Witness ==
    /\ last.op = "PermStringToUint"
    /\ last.rest = << 3 >>
    /\ last.arg = << << "-", "w", "x" >> >>
    /\ last.result = << 3 >>

\* C15: GetEntries returns the stored entries in the stored order and changes
\* nothing; AddEntry, DeleteEntry, ToByteSlice and String leave every slice
\* GetEntries returned before as it was; appending to a returned slice, or
\* writing an element of it, leaves the ACL and the other returned slices as
\* they were.
C15_GetEntriesIndependent ==
    [][LET before == GotViews(mem)
           now == GotViews(mem)'
       IN  /\ last'.op = "GetEntries" =>
                 /\ acls' = acls
                 /\ Len(now) = Len(before) + 1
                 /\ now[Len(now)] = acls["a"].Entries
                 /\ \A i \in 1..Len(before) : now[i] = before[i]
           /\ last'.op \in {"AddEntry", "DeleteEntry", "ToByteSlice", "String"} =>
                 now = before
           /\ last'.op \in {"append", "set"} =>
                 /\ acls' = acls
                 /\ Len(now) = Len(before)
                 /\ \A i \in 1..Len(before) : i # last'.arg[1] => now[i] = before[i]
      ]_vars

\* the ACL has been sorted while the caller keeps two slices from GetEntries:
\* one still in the order the ACL had before the sort, one the caller has
\* written to
C15_Witness ==
    /\ last.op \in {"ToByteSlice", "String"}
    /\ Len(mem.got) = 2
    /\ mem.got[1].len = 2
    /\ ~TagsAscending(GotViews(mem)[1])
    /\ SameEntries(GotViews(mem)[1], acls["a"].Entries)
    /\ \E k \in 1..mem.got[2].len : GotViews(mem)[2][k] = CallerEntry

\* C21: PermStringToUint returns an error, and permission 0, exactly when the
\* string does not have 3 characters; for a string of 3 characters it sets
\* the read bit iff the first is 'r', the write bit iff the second is 'w',
\* the execute bit iff the third is 'x'.
C21_FromString ==
    last.op = "PermStringToUint" =>
        LET str == last.arg[1]
        IN  /\ last.err # ErrNil <=> Len(str) # 3
            /\ last.err # ErrNil => last.err = ErrPermLength /\ last.result = << 0 >>
            /\ Len(str) = 3 =>
                  last.result = << (IF str[1] = "r" THEN 4 ELSE 0)
                                     + (IF str[2] = "w" THEN 2 ELSE 0)
                                     + (IF str[3] = "x" THEN 1 ELSE 0) >>

\* C22: PermUintToString returns exactly 3 characters for every 16-bit
\* permission: 'r' or '-' for the read bit, 'w' or '-' for the write bit,
\* 'x' or '-' for the execute bit; the bits above the low three do not
\* change the string.
C22_ToString ==
    last.op = "PermUintToString" =>
        LET p == last.arg[1]
            str == last.result[1]
        IN  /\ Len(str) = 3
            /\ str[1] = (IF (p \div 4) % 2 = 1 THEN "r" ELSE "-")
            /\ str[2] = (IF (p \div 2) % 2 = 1 THEN "w" ELSE "-")
            /\ str[3] = (IF p % 2 = 1 THEN "x" ELSE "-")
            /\ str = PermUintToString(p % 8)

\* the permission 0xFFFA, the write bit alone among the low three, has been
\* turned into its string
C22_Witness ==
    /\ last.op = "PermUintToString"
    /\ last.arg = << 65530 >>
    /\ last.result = << << "-", "w", "-" >> >>

\* bit k of the unsigned number x
Bit(x, k) == (x \div (2 ^ k)) % 2

\* C23: WithPerm, WithoutPerm and WithExactPerm each return a new entry that
\* has the tag and the id of the entry they are called on and the permission
\* perm | bits, perm &^ bits and bits; the entry they are called on, and every
\* entry returned by an earlier call, is as it was.
C23_WithPermPure ==
    last.op \in {"WithPerm", "WithoutPerm", "WithExactPerm"} =>
        LET pre == last.pre
            e == pre[last.arg[1]]
            bits == last.arg[2]
            r == last.result[1]
        IN  /\ r \notin 1..Len(pre)
            /\ r \in 1..Len(mem.heap)
            /\ \A j \in 1..Len(pre) : mem.heap[j] = pre[j]
            /\ mem.heap[r].Tag = e.Tag
            /\ mem.heap[r].Id = e.Id
            /\ mem.heap[r].Perm \in 0..65535
            /\ \A k \in 0..15 :
                  Bit(mem.heap[r].Perm, k) =
                      CASE last.op = "WithPerm" ->
                               IF Bit(e.Perm, k) = 1 \/ Bit(bits, k) = 1 THEN 1 ELSE 0
                        [] last.op = "WithoutPerm" ->
                               IF Bit(e.Perm, k) = 1 /\ Bit(bits, k) = 0 THEN 1 ELSE 0
                        [] last.op = "WithExactPerm" -> Bit(bits, k)

\* WithoutPerm has been called on the entry an earlier WithPerm returned,
\* and has cleared bits that call had set
C23_Witness ==
    /\ last.op = "WithoutPerm"
    /\ Len(last.pre) = 2
    /\ last.arg = << 2, 6 >>
    /\ last.pre[1].Perm = PermRead
    /\ last.pre[2].Perm = 32773
    /\ mem.heap[3].Perm = 32769

\* C24: HasPerm is true exactly when every bit set in its argument is set
\* in the permission of the entry; for PermNone it is true for every entry.
C24_HasPerm ==
    last.op = "HasPerm" =>
        LET e == last.pre[last.arg[1]]
            bits == last.arg[2]
        IN  /\ last.equal <=> \A k \in 0..15 : Bit(bits, k) = 1 => Bit(e.Perm, k) = 1
            /\ bits = PermNone => last.equal
            /\ mem.heap = last.pre

\* HasPerm has answered no for read and write on an entry holding read alone
C24_Witness ==
    /\ last.op = "HasPerm"
    /\ last.pre[last.arg[1]].Perm = PermRead
    /\ last.arg[2] = 6
    /\ ~last.equal

RECURSIVE OtherKeys(_, _)
\* the entries of s that do not have the tag and the id of e, in their order
OtherKeys(s, e) ==
    IF s = << >> THEN << >>
    ELSE IF Head(s).Tag = e.Tag /\ Head(s).Id = e.Id THEN OtherKeys(Tail(s), e)
    ELSE << Head(s) >> \o OtherKeys(Tail(s), e)

\* C25: after AddEntry the entry given is the last stored entry; the stored
\* entries of another tag or id are the ones stored before, unchanged and in
\* the order they had; the version is as it was.
C25_AddEntryLast ==
    last.op = "AddEntry" =>
        LET pre == last.pre[last.on]
            post == acls[last.on]
            e == last.arg[1]
            n == Len(post.Entries)
        IN  /\ n >= 1
            /\ post.Entries[n] = e
            /\ OtherKeys(SubSeq(post.Entries, 1, n - 1), e) = OtherKeys(pre.Entries, e)
            /\ post.Version = pre.Version
            /\ \A m \in Names \ {last.on} : acls[m] = last.pre[m]

\* AddEntry has been given, with another permission, the tag and the id of
\* the first of three stored entries
C25_Witness ==
    /\ last.op = "AddEntry"
    /\ Len(last.pre[last.on].Entries) = 3
    /\ equalTagID(last.pre[last.on].Entries[1], last.arg[1])
    /\ last.pre[last.on].Entries[1].Perm # last.arg[1].Perm
    /\ acls[last.on].Entries[3] = last.arg[1]
    /\ acls[last.on].Entries[1] = last.pre[last.on].Entries[2]

\* the bytes ToByteSlice writes for acl
Serialized(acl) == { r.bytes : r \in ToByteSlice(acl) }

\* acl holds what Load bootstraps from the file, in whatever order
Bootstrapped(acl) ==
    /\ fs.stat.err = ErrNil /\ fs.stat.sys
    /\ acl.Version = 2
    /\ SameEntries(acl.Entries, bootstrapACL(ACLValue(2, << >>), fs).acl.Entries)

MapOf(acl) == { << acl.Entries[i].Tag, acl.Entries[i].Id, acl.Entries[i].Perm >>
                : i \in 1..Len(acl.Entries) }

\* the triples of map m under the key of e
AtKey(m, e) == { t \in m : t[1] = e.Tag /\ t[2] = e.Id }

\* C27: from an empty ACL, under AddEntry, DeleteEntry and GetEntry the ACL is
\* a finite map from (tag, id) to permission: every key has one permission
\* and the entry count is the number of keys; AddEntry sets the permission of
\* its key, DeleteEntry removes its key, each leaving the other keys as they
\* were; GetEntry returns the permission the map has for the key, nil when
\* it has none, and leaves the map as it was.
C27_FiniteMap ==
    /\ \A n \in Names :
          LET m == MapOf(acls[n])
          IN  /\ \A t, u \in m : (t[1] = u[1] /\ t[2] = u[2]) => t = u
              /\ Len(acls[n].Entries) = Cardinality(m)
    /\ last.op \in {"AddEntry", "DeleteEntry", "GetEntry"} =>
          LET before == MapOf(last.pre[last.on])
              after == MapOf(acls[last.on])
              e == last.arg[1]
          IN  /\ last.op = "AddEntry" =>
                    after = (before \ AtKey(before, e)) \cup { << e.Tag, e.Id, e.Perm >> }
              /\ last.op = "DeleteEntry" => after = before \ AtKey(before, e)
              /\ last.op = "GetEntry" =>
                    /\ after = before
                    /\ { << last.result[i].Tag, last.result[i].Id, last.result[i].Perm >>
                          : i \in 1..Len(last.result) } = AtKey(before, e)
                    /\ Len(last.result) <= 1
              /\ \A m \in Names \ {last.on} : acls[m] = last.pre[m]

\* GetEntry has returned the permission of the last of three entries, which
\* is not the permission the key was given with, while another entry of the
\* same tag is stored before it
C27_Witness ==
    /\ last.op = "GetEntry"
    /\ Len(acls[last.on].Entries) = 3
    /\ last.result = << acls[last.on].Entries[3] >>
    /\ last.result[1].Perm = 5
    /\ last.arg[1].Perm = 7
    /\ acls[last.on].Entries[1].Tag = last.arg[1].Tag

\* C28: ToByteSlice, String and Equal leave every ACL with the version it had
\* and with the entries it had, each as often as before: at most the order
\* of the stored entries changes.
C28_OnlyOrderChanges ==
    last.op \in {"ToByteSlice", "String", "Equal"} =>
        \A n \in Names :
            /\ acls[n].Version = last.pre[n].Version
            /\ SameEntries(acls[n].Entries, last.pre[n].Entries)
            /\ (last.op # "Equal" /\ n # last.on) => acls[n] = last.pre[n]

\* Equal has reordered its argument, an ACL of version 3 and of three
\* entries two of which have the same tag
C28_Witness ==
    /\ last.op = "Equal"
    /\ Len(acls["b"].Entries) = 3
    /\ ~DistinctTags(acls["b"].Entries)
    /\ acls["b"].Entries # last.pre["b"].Entries
    /\ acls["b"].Version = 3

\* C29: a.Equal(b) is true exactly when ToByteSlice writes the same bytes for
\* a and for b.
C29_EqualIffSameBytes ==
    \A r \in Equal(acls["a"], acls["b"]),
       x \in ToByteSlice(acls["a"]), y \in ToByteSlice(acls["b"]) :
        r.result <=> x.bytes = y.bytes

\* Equal has answered no for two ACLs of the same version that hold the
\* same two entries of one tag in different orders; their bytes differ
C29_Witness ==
    /\ last.op = "Equal"
    /\ ~last.equal
    /\ acls["a"].Version = acls["b"].Version
    /\ Len(acls["a"].Entries) = 2
    /\ SameEntries(acls["a"].Entries, acls["b"].Entries)
    /\ \A x \in ToByteSlice(acls["a"]), y \in ToByteSlice(acls["b"]) : x.bytes # y.bytes

\* the ACL a Load leaves in a new &ACL{} when its system calls answer io
LoadFresh(io, file) ==
    LET first == Load_size(ZeroACL, file, io[1])
    IN  IF Len(io) = 1 THEN first.acl
        ELSE Load_read(first.acl, io[1].n, io[2]).acl

\* C30: when Load returns, with or without an error, the ACL is the one the
\* same Load leaves in a new ACL: nothing the ACL held before the call is
\* left.  A Load that returns no error on an ACL that already is what this
\* Load reads leaves an ACL that Equal finds equal to it.
C30_LoadDiscards ==
    last.op = "Load" =>
        LET fresh == LoadFresh(last.io, fs)
        IN  /\ acls[last.on] = fresh
            /\ (/\ last.err = ErrNil
                /\ \A r \in Equal(last.pre[last.on], fresh) : r.result)
               => \A r \in Equal(acls[last.on], last.pre[last.on]) : r.result

\* Load has failed on an ACL that held the four bootstrapped entries and has
\* left it with the one entry read before the error
C30_Witness ==
    /\ last.op = "Load"
    /\ last.err = ErrMalformed
    /\ Len(last.pre[last.on].Entries) = 4
    /\ Len(acls[last.on].Entries) = 1
    /\ acls[last.on].Entries[1].Tag = TAG_ACL_USER

====
